---------------------------- MODULE Spec2Model ----------------------------
(***************************************************************************)
(* A model of ApnsClient (src/src/apns.ts): the cached provider token, the *)
(* send pipeline (token acquisition, request, response classification,    *)
(* error emission) and sendMany.                                           *)
(*                                                                         *)
(* JavaScript runs one job at a time, so every action below is one job:    *)
(* the code between two suspension points (the `await fetch` of line 91    *)
(* and the `await res.json()` of line 106).  The wall clock is the only    *)
(* thing that moves inside a job.                                          *)
(***************************************************************************)
EXTENDS Integers, Sequences, FiniteSets, TLC

(***************************************************************************)
(* Bounds of the model.                                                    *)
(***************************************************************************)
MaxSends == 2          \* calls of send() in one behaviour
MaxBatch == 2          \* longest input of sendMany
MaxTicks == 3          \* clock advances in one behaviour
MaxNotification == 2   \* distinct notifications

(***************************************************************************)
(* Program constants.                                                      *)
(***************************************************************************)
RESET_TOKEN_INTERVAL_MS == 55 * 60 * 1000
SuccessStatus == 200

\* The clock moves in steps of half the reset interval, so that ages below,
\* exactly at, and above the interval all occur.  It starts off a whole
\* second, so that Math.floor(Date.now() / 1000) rounds.
TickMs == RESET_TOKEN_INTERVAL_MS \div 2
StartMs == 1000 + 500
MaxNow == StartMs + MaxTicks * TickMs
ClockSteps == {0, TickMs}

Notifications == 1..MaxNotification
SendIds == 1..MaxSends

\* Errors (imported on line 3): the reasons the model draws from, the reason
\* synthesized for an unparseable body, and the name of the generic channel.
expiredProviderToken == "ExpiredProviderToken"
badDeviceToken == "BadDeviceToken"
unknownError == "Unknown error"
ErrorChannel == "error"
ServerReasons == {expiredProviderToken, badDeviceToken}

\* What the service answers: a status and a body that is either JSON
\* {reason, timestamp} or not JSON at all.
ServerTimestamp == 0
JsonBody(reason) == [json |-> TRUE, reason |-> reason]
InvalidBody == [json |-> FALSE, reason |-> ""]
Response(status, body) == [kind |-> "response", status |-> status, body |-> body]
Responses ==
  { Response(SuccessStatus, InvalidBody),
    Response(403, JsonBody(expiredProviderToken)),
    Response(400, JsonBody(badDeviceToken)),
    Response(403, InvalidBody) }

VARIABLES
  now,        \* Date.now(), in milliseconds
  signerOk,   \* whether createSigner/signer accept the client's key
  listeners,  \* channels with a listener registered (EventEmitter.on)
  token,      \* this._token
  signCalls,  \* number of calls of the signing primitive so far
  sends,      \* one record per call of send()
  nextId,     \* the next call of send() gets this id
  batch,      \* the one call of sendMany()
  defaultTopic, \* this.defaultTopic
  catalog     \* the notification objects the caller holds, by identity

vars == <<now, signerOk, listeners, token, signCalls, sends, nextId, batch,
          defaultTopic, catalog>>

NoToken == [kind |-> "none"]
None == [kind |-> "none"]


(***************************************************************************)
(* The signing primitive (fast-jwt createSigner + signer), a collaborator: *)
(* the token it returns carries the claims and a signature.  ES256         *)
(* signatures are randomized, so two calls never return the same string:   *)
(* sig numbers the call that produced the token.                           *)
(***************************************************************************)
Sign(claims, call) ==
  [kind |-> "jwt", iss |-> claims.iss, iat |-> claims.iat, sig |-> call]

(***************************************************************************)
(* _getSigningToken (lines 129-153).  tok is this._token, t0 the clock at  *)
(* the expiry check and when the claims are built (lines 130, 136: no call *)
(* lies between them); d is how far the clock moves while the signer runs, *)
(* before the token is stored (line 149).  The result says whether the     *)
(* signer threw, the value returned, the cache and the clock afterwards,   *)
(* and the signer calls.                                                   *)
(***************************************************************************)
GetSigningTokenInclusive(tok, ok, calls, t0, d) ==
  IF tok.kind = "token" /\ t0 - tok.timestamp <= RESET_TOKEN_INTERVAL_MS
  THEN [threw |-> FALSE, ret |-> tok.value, token |-> tok, now |-> t0,
        calls |-> calls]
  ELSE LET t1 == t0
           t2 == t1 + d
           claims == [iss |-> "team", iat |-> t1 \div 1000]
       IN  IF ~ok
           THEN [threw |-> TRUE, ret |-> None, token |-> tok, now |-> t1,
                 calls |-> calls + 1]
           ELSE LET value == Sign(claims, calls + 1)
                IN  [threw |-> FALSE, ret |-> value,
                     token |-> [kind |-> "token", value |-> value,
                                timestamp |-> t2],
                     now |-> t2, calls |-> calls + 1]

\* The stored timestamp is the signed iat, in milliseconds.
GetSigningTokenIatStamp(tok, ok, calls, t0, d) ==
  IF tok.kind = "token" /\ t0 - tok.timestamp < RESET_TOKEN_INTERVAL_MS
  THEN [threw |-> FALSE, ret |-> tok.value, token |-> tok, now |-> t0,
        calls |-> calls]
  ELSE LET t2 == t0 + d
           claims == [iss |-> "team", iat |-> t0 \div 1000]
       IN  IF ~ok
           THEN [threw |-> TRUE, ret |-> None, token |-> tok, now |-> t0,
                 calls |-> calls + 1]
           ELSE LET value == Sign(claims, calls + 1)
                IN  [threw |-> FALSE, ret |-> value,
                     token |-> [kind |-> "token", value |-> value,
                                timestamp |-> 1000 * claims.iat],
                     now |-> t2, calls |-> calls + 1]

\* The signed token is returned but not stored.
GetSigningTokenNoStore(tok, ok, calls, t0, d) ==
  IF tok.kind = "token" /\ t0 - tok.timestamp < RESET_TOKEN_INTERVAL_MS
  THEN [threw |-> FALSE, ret |-> tok.value, token |-> tok, now |-> t0,
        calls |-> calls]
  ELSE LET t2 == t0 + d
           claims == [iss |-> "team", iat |-> t0 \div 1000]
       IN  IF ~ok
           THEN [threw |-> TRUE, ret |-> None, token |-> tok, now |-> t0,
                 calls |-> calls + 1]
           ELSE [threw |-> FALSE, ret |-> Sign(claims, calls + 1),
                 token |-> tok, now |-> t2, calls |-> calls + 1]

\* A failing signer is called a second time before the error is raised.
GetSigningTokenRetry(tok, ok, calls, t0, d) ==
  IF tok.kind = "token" /\ t0 - tok.timestamp < RESET_TOKEN_INTERVAL_MS
  THEN [threw |-> FALSE, ret |-> tok.value, token |-> tok, now |-> t0,
        calls |-> calls]
  ELSE LET t2 == t0 + d
           claims == [iss |-> "team", iat |-> t0 \div 1000]
       IN  IF ~ok
           THEN [threw |-> TRUE, ret |-> None, token |-> tok, now |-> t0,
                 calls |-> calls + 2]
           ELSE LET value == Sign(claims, calls + 1)
                IN  [threw |-> FALSE, ret |-> value,
                     token |-> [kind |-> "token", value |-> value,
                                timestamp |-> t2],
                     now |-> t2, calls |-> calls + 1]

GetSigningToken(tok, ok, calls, t0, d) ==
  IF tok.kind = "token" /\ t0 - tok.timestamp < RESET_TOKEN_INTERVAL_MS
  THEN [threw |-> FALSE, ret |-> tok.value, token |-> tok, now |-> t0,
        calls |-> calls]
  ELSE LET t1 == t0
           t2 == t1 + d
           claims == [iss |-> "team", iat |-> t1 \div 1000]
       IN  IF ~ok
           THEN [threw |-> TRUE, ret |-> None, token |-> tok, now |-> t1,
                 calls |-> calls + 1]
           ELSE LET value == Sign(claims, calls + 1)
                IN  [threw |-> FALSE, ret |-> value,
                     token |-> [kind |-> "token", value |-> value,
                                timestamp |-> t2],
                     now |-> t2, calls |-> calls + 1]

(***************************************************************************)
(* Values and errors.                                                      *)
(***************************************************************************)
\* The notification object itself, as a promise's value.
NotificationValue(n) == [kind |-> "notification", notification |-> n]
\* The object { error } of sendMany's catch handler.
ErrorObject(e) == [kind |-> "errorObject", error |-> e]
Fulfilled(v) == [kind |-> "fulfilled", value |-> v]
Rejected(e) == [kind |-> "rejected", error |-> e]

\* new ApnsError({statusCode, notification, response}); reason is
\* response.reason.  id tells the objects of different sends apart.
ApnsError(s, statusCode, n, response) ==
  [kind |-> "ApnsError", id |-> s, statusCode |-> statusCode,
   notification |-> n, reason |-> response.reason,
   timestamp |-> response.timestamp]
\* What the signing primitive throws, and what fetch rejects with.
SigningError(s) == [kind |-> "SigningError", id |-> s]
TransportError(s) == [kind |-> "TransportError", id |-> s]

(***************************************************************************)
(* One call of send().                                                     *)
(***************************************************************************)
UnusedSend ==
  [pc |-> "unused", notification |-> 0, parent |-> 0, acq |-> None,
   request |-> None, requests |-> 0, res |-> None, bodyRead |-> FALSE,
   outcome |-> None, steps |-> <<>>, via |-> "none"]

\* The part of the state a job reads and writes.
World ==
  [now |-> now, token |-> token, signCalls |-> signCalls, sends |-> sends,
   nextId |-> nextId, batch |-> batch]

NoBatch ==
  [state |-> "none", input |-> <<>>, ids |-> <<>>, values |-> <<>>,
   remaining |-> 0, reason |-> None]

(***************************************************************************)
(* sendMany's promises (lines 57-62): each send's promise goes through     *)
(* .catch(error => ({ error })), and Promise.all stores each fulfilment    *)
(* at its input position, resolves when none remains and rejects on the    *)
(* first rejection.                                                        *)
(***************************************************************************)
CatchWrapNone(o) == o

CatchWrap(o) ==
  IF o.kind = "rejected" THEN Fulfilled(ErrorObject(o.error)) ELSE o

\* Promise.all that stores values in completion order.
PromiseAllElementPush(B, i, o) ==
  IF B.state # "pending" THEN B
  ELSE IF o.kind = "rejected"
       THEN [B EXCEPT !.state = "rejected", !.reason = o.error]
       ELSE LET k == Len(B.input) - B.remaining + 1
                B1 == [B EXCEPT !.values[k] = o.value, !.remaining = @ - 1]
            IN  IF B1.remaining = 0 THEN [B1 EXCEPT !.state = "resolved"]
                ELSE B1

\* Promise.race in the place of Promise.all: the first to settle decides.
PromiseRaceElement(B, i, o) ==
  IF B.state # "pending" THEN B
  ELSE IF o.kind = "rejected"
       THEN [B EXCEPT !.state = "rejected", !.reason = o.error]
       ELSE [B EXCEPT !.values[i] = o.value, !.remaining = @ - 1,
                      !.state = "resolved"]

PromiseAllElement(B, i, o) ==
  IF B.state # "pending" THEN B
  ELSE IF o.kind = "rejected"
       THEN [B EXCEPT !.state = "rejected", !.reason = o.error]
       ELSE LET B1 == [B EXCEPT !.values[i] = o.value, !.remaining = @ - 1]
            IN  IF B1.remaining = 0 THEN [B1 EXCEPT !.state = "resolved"]
                ELSE B1

\* Promise.all(promises) over the send ids `ids` started for `input`.
PromiseAll(input, ids) ==
  [state |-> IF Len(ids) = 0 THEN "resolved" ELSE "pending",
   input |-> input, ids |-> ids, values |-> [i \in 1..Len(ids) |-> None],
   remaining |-> Len(ids), reason |-> None]

PositionOf(B, s) == CHOOSE i \in 1..Len(B.ids) : B.ids[i] = s
InBatch(B, s) == \E i \in 1..Len(B.ids) : B.ids[i] = s

\* The promise of send s settles with outcome o.  When the send belongs to
\* the batch, its catch handler and Promise.all's element handler run in the
\* microtasks that follow, before any other job: they are part of the step.
Settle(W, s, o, via) ==
  LET W1 == [W EXCEPT !.sends[s].pc = "settled", !.sends[s].outcome = o,
                      !.sends[s].via = via]
  IN  IF InBatch(W.batch, s)
      THEN [W1 EXCEPT !.batch =
              PromiseAllElement(W.batch, PositionOf(W.batch, s), CatchWrap(o))]
      ELSE W1

(***************************************************************************)
(* The request headers of send, lines 65-88.  A value that may be missing  *)
(* is a record: undefined, a string, a number or a Date; a header is       *)
(* either unset or set to a string.  A decimal numeral is the sequence of  *)
(* its digits.                                                             *)
(***************************************************************************)
Undefined == [kind |-> "undefined"]
String(v) == [kind |-> "string", value |-> v]
Number(v) == [kind |-> "number", value |-> v]
\* new Date(ms)
Date(ms) == [kind |-> "date", time |-> ms]
Unset == [kind |-> "unset"]
Header(v) == [kind |-> "header", value |-> v]

\* Priority (imported on line 4).
Priority == [immediate |-> 10, throttled |-> 5, low |-> 1]

\* The decimal numeral of a natural number.
RECURSIVE Digits(_)
Digits(n) == IF n < 10 THEN <<n>> ELSE Append(Digits(n \div 10), n % 10)

\* Number.prototype.toString() of a natural number.
NumberToString(n) == Digits(n)

\* (num / den).toFixed(0) for a non-negative quotient: the numeral of the
\* nearest integer, a half rounded up.
ToFixed0(num, den) == Digits((2 * num + den) \div (2 * den))

\* if (x): a string is truthy unless it is empty; undefined is falsy.
TruthyString(x) == x.kind = "string" /\ x.value # ""

\* lines 69-72
ApnsTopicHeader(topic, dflt) ==
  LET apnsTopic == IF topic.kind # "undefined" THEN topic ELSE dflt
  IN  IF TruthyString(apnsTopic) THEN Header(apnsTopic.value) ELSE Unset

\* The priority is always serialized.
ApnsPriorityHeaderAlways(priority) == Header(NumberToString(priority))

\* lines 74-76
ApnsPriorityHeader(priority) ==
  IF priority # Priority.immediate
  THEN Header(NumberToString(priority))
  ELSE Unset

\* The expiration is tested for truthiness: the number 0 sets no header.
ApnsExpirationHeaderTruthy(expiration) ==
  IF expiration.kind = "undefined"
     \/ (expiration.kind = "number" /\ expiration.value = 0)
  THEN Unset
  ELSE Header(IF expiration.kind = "number"
              THEN ToFixed0(expiration.value, 1)
              ELSE ToFixed0(expiration.time, 1000))

\* lines 78-84
ApnsExpirationHeader(expiration) ==
  IF expiration.kind # "undefined"
  THEN LET expirationValue ==
             IF expiration.kind = "number"
             THEN ToFixed0(expiration.value, 1)
             ELSE ToFixed0(expiration.time, 1000)
       IN  Header(expirationValue)
  ELSE Unset

\* lines 86-88
ApnsCollapseIdHeader(collapseId) ==
  IF TruthyString(collapseId) THEN Header(collapseId.value) ELSE Unset

\* lines 65-88: the Headers object passed to fetch.
BuildHeaders(authorization, notification, dflt) ==
  [authorization |-> authorization,
   pushType |-> Header(notification.pushType),
   topic |-> ApnsTopicHeader(notification.options.topic, dflt),
   priority |-> ApnsPriorityHeader(notification.priority),
   expiration |-> ApnsExpirationHeader(notification.options.expiration),
   collapseId |-> ApnsCollapseIdHeader(notification.options.collapseId)]

\* The notification objects the model draws from.
Topics == {Undefined, String(""), String("com.example.topic")}
DefaultTopics == {Undefined, String(""), String("com.example.app")}
Priorities == {Priority.immediate, Priority.throttled, Priority.low}
ExpirationSeconds == {0, 7, 12}
ExpirationInstants == {0, 1499, 1500, 7000, 12000}
Expirations ==
  {Undefined} \cup {Number(n) : n \in ExpirationSeconds}
              \cup {Date(ms) : ms \in ExpirationInstants}
CollapseIds == {Undefined, String("c")}
NotificationObjects ==
  [pushType : {"alert"}, priority : Priorities,
   options : [topic : Topics, expiration : Expirations,
              collapseId : CollapseIds]]
\* The same notification with its expiration given as the calendar instant.
Twin(o) ==
  IF o.options.expiration.kind = "number"
  THEN [o EXCEPT !.options.expiration = Date(1000 * @.value)]
  ELSE o
PlainNotification ==
  [pushType |-> "alert", priority |-> Priority.immediate,
   options |-> [topic |-> Undefined, expiration |-> Undefined,
                collapseId |-> Undefined]]

(***************************************************************************)
(* send, lines 64-96: up to the call of fetch.  d is the clock's movement  *)
(* inside _getSigningToken.                                                *)
(***************************************************************************)
SendPrefix(W, n, parent, d) ==
  LET s == W.nextId
      g == GetSigningToken(W.token, signerOk, W.signCalls, W.now, d)
      acq == [kind |-> "acq", before |-> W.token, t0 |-> W.now,
              calls |-> g.calls - W.signCalls, ret |-> g.ret,
              after |-> g.token]
      W1 == [W EXCEPT !.token = g.token, !.now = g.now,
                      !.signCalls = g.calls, !.nextId = s + 1,
                      !.sends[s] = [UnusedSend EXCEPT !.notification = n,
                                      !.parent = parent, !.acq = acq]]
  IN  IF g.threw
      THEN Settle(W1, s, Rejected(SigningError(s)), "signer")
      ELSE [W1 EXCEPT !.sends[s].pc = "fetching",
                      !.sends[s].request =
                          [kind |-> "request", authorization |-> g.ret,
                           notification |-> n,
                           headers |-> BuildHeaders(g.ret, catalog[n],
                                                    defaultTopic)],
                      !.sends[s].requests = @ + 1]

(***************************************************************************)
(* _handleServerResponse, lines 101-127.                                   *)
(***************************************************************************)
IsSuccessCreated(status) == status = 201

\* line 102
IsSuccess(status) == status = SuccessStatus

\* res.json(): the parsed body, or a rejection when the body is not JSON.
ParseJson(body) ==
  IF body.json
  THEN [ok |-> TRUE,
        value |-> [reason |-> body.reason, timestamp |-> ServerTimestamp]]
  ELSE [ok |-> FALSE, value |-> None]

\* The synthesized body without its reason.
ResponseErrorNoReason(body, t) ==
  LET parsed == ParseJson(body)
  IN  IF parsed.ok THEN parsed.value
      ELSE [reason |-> body.reason, timestamp |-> t]

\* lines 106-109: the parsed body, or the synthesized one.
ResponseError(body, t) ==
  LET parsed == ParseJson(body)
  IN  IF parsed.ok THEN parsed.value
      ELSE [reason |-> unknownError, timestamp |-> t]

ShouldInvalidateNever(reason) == FALSE

ShouldInvalidateAlways(reason) == TRUE

\* line 118
ShouldInvalidate(reason) == reason = expiredProviderToken

\* One entry of the record a send keeps of what its error path did; cache
\* is this._token as the step found it.
Step(op, channel, error, heard, cache) ==
  [op |-> op, channel |-> channel, error |-> error, heard |-> heard,
   cache |-> cache]

\* line 119
Invalidate(W, s) ==
  [W EXCEPT !.token = NoToken,
            !.sends[s].steps = Append(@, Step("invalidate", "", None, FALSE, W.token))]

\* What a listener does with the error it is handed: it only looks at it,
\* or it sends the notification again.
ListenerActs == {"observe", "send"}

\* EventEmitter.emit(channel, error) of node:events: the listeners of the
\* channel run inside the call; "error" without a listener throws the error.
Emit(W, s, channel, error, act, d) ==
  LET heard == channel \in listeners
      W1 == [W EXCEPT !.sends[s].steps =
                        Append(@, Step("emit", channel, error, heard, W.token))]
      W2 == IF heard /\ act = "send"
            THEN SendPrefix(W1, error.notification, s, d)
            ELSE W1
  IN  [w |-> W2, threw |-> (channel = ErrorChannel /\ ~heard)]

\* The error leaves _handleServerResponse: send's promise rejects with it.
Raise(W, s, error, via) ==
  Settle([W EXCEPT !.sends[s].steps =
                      Append(@, Step("raise", "", error, FALSE, W.token))],
         s, Rejected(error), via)

\* The emissions before the invalidation.
HandleErrorEmitFirst(W, s, error, acts, ds) ==
  LET E1 == Emit(W, s, error.reason, error, acts[1], ds[1])
      E2 == IF E1.threw THEN E1
            ELSE Emit(E1.w, s, ErrorChannel, error, acts[2], ds[2])
      W3 == IF ShouldInvalidate(error.reason) THEN Invalidate(E2.w, s)
            ELSE E2.w
  IN  Raise(W3, s, error, IF E2.threw THEN "emit" ELSE "throw")

\* Only the reason's own channel.
HandleErrorOneChannel(W, s, error, acts, ds) ==
  LET W1 == IF ShouldInvalidate(error.reason) THEN Invalidate(W, s) ELSE W
      E1 == Emit(W1, s, error.reason, error, acts[1], ds[1])
  IN  Raise(E1.w, s, error, IF E1.threw THEN "emit" ELSE "throw")

\* lines 117-126
HandleError(W, s, error, acts, ds) ==
  LET W1 == IF ShouldInvalidate(error.reason) THEN Invalidate(W, s) ELSE W
      E1 == Emit(W1, s, error.reason, error, acts[1], ds[1])
      E2 == IF E1.threw THEN E1
            ELSE Emit(E1.w, s, ErrorChannel, error, acts[2], ds[2])
  IN  Raise(E2.w, s, error, IF E2.threw THEN "emit" ELSE "throw")

(***************************************************************************)
(* The state machine.                                                      *)
(***************************************************************************)
\* The client has no listener at all, or one on the expired-token channel
\* and one on the generic channel.
ListenerSets == {{}, {expiredProviderToken, ErrorChannel}}

Init ==
  /\ now = StartMs
  /\ signerOk \in BOOLEAN
  /\ listeners \in ListenerSets
  /\ token = NoToken
  /\ signCalls = 0
  /\ sends = [s \in SendIds |-> UnusedSend]
  /\ nextId = 1
  /\ batch = NoBatch
  /\ defaultTopic = String("com.example.app")
  /\ catalog = [n \in Notifications |-> PlainNotification]

\* The job ends in world W.
Apply(world) ==
  \E W \in {world} :
    /\ W.now <= MaxNow
    /\ now' = W.now
    /\ token' = W.token
    /\ signCalls' = W.signCalls
    /\ sends' = W.sends
    /\ nextId' = W.nextId
    /\ batch' = W.batch
    /\ UNCHANGED <<signerOk, listeners, defaultTopic, catalog>>

\* Time passes between jobs.
Tick ==
  /\ now + TickMs <= MaxNow
  /\ now' = now + TickMs
  /\ UNCHANGED <<signerOk, listeners, token, signCalls, sends, nextId, batch,
                 defaultTopic, catalog>>

\* The notifications the caller can pass next: one it has passed before, or
\* the next new one (notifications are told apart only by identity).
Passed(snds) == {snds[s].notification : s \in {x \in SendIds : snds[x].pc # "unused"}}
Passable(snds) ==
  {n \in Notifications : n = 1 \/ n \in Passed(snds) \/ n - 1 \in Passed(snds)}
RECURSIVE Canonical(_, _)
Canonical(input, seen) ==
  IF input = <<>> THEN TRUE
  ELSE LET n == Head(input)
       IN  /\ n = 1 \/ n \in seen \/ n - 1 \in seen
           /\ Canonical(Tail(input), seen \cup {n})

\* The caller calls send(n).
Send ==
  /\ nextId <= MaxSends
  /\ \E n \in Passable(sends), d \in ClockSteps : Apply(SendPrefix(World, n, 0, d))

\* Every send of the batch checks the cache as the batch found it, and the
\* stores follow the checks.
RECURSIVE StartAllRacy(_, _, _, _)
StartAllRacy(W, input, ds, i) ==
  IF i > Len(input) THEN W
  ELSE LET seen == IF i = 1 THEN W.token
                   ELSE W.sends[W.nextId - (i - 1)].acq.before
       IN  StartAllRacy(SendPrefix([W EXCEPT !.token = seen], input[i], 0, ds[i]),
                        input, ds, i + 1)

\* notifications.map(...) of line 58: the sends start one after the other.
RECURSIVE StartAll(_, _, _, _)
StartAll(W, input, ds, i) ==
  IF i > Len(input) THEN W
  ELSE StartAll(SendPrefix(W, input[i], 0, ds[i]), input, ds, i + 1)

\* The promises that were already settled when Promise.all took them.
RECURSIVE DeliverSettled(_, _)
DeliverSettled(W, i) ==
  IF i > Len(W.batch.ids) THEN W
  ELSE LET snd == W.sends[W.batch.ids[i]]
       IN  DeliverSettled(
             IF snd.pc = "settled"
             THEN [W EXCEPT !.batch =
                     PromiseAllElement(W.batch, i, CatchWrap(snd.outcome))]
             ELSE W,
             i + 1)

\* The caller calls sendMany(input), lines 57-62.
SendMany ==
  /\ batch.state = "none"
  /\ \E k \in 0..MaxBatch :
       /\ nextId + k <= MaxSends + 1
       /\ \E input \in {x \in [1..k -> Notifications] : Canonical(x, Passed(sends))},
             ds \in [1..k -> ClockSteps] :
            LET W1 == StartAll(World, input, ds, 1)
                ids == [i \in 1..k |-> nextId + i - 1]
                W2 == [W1 EXCEPT !.batch = PromiseAll(input, ids)]
            IN  Apply(DeliverSettled(W2, 1))

\* fetch resolves with a response (line 91) and _handleServerResponse runs
\* up to its return or its await (lines 102-106).
FetchSettles(s) ==
  /\ sends[s].pc = "fetching"
  /\ \E res \in Responses :
       LET W1 == [World EXCEPT !.sends[s].res = res]
       IN  IF IsSuccess(res.status)
           THEN Apply(Settle(W1, s,
                        Fulfilled(NotificationValue(sends[s].notification)),
                        "return"))
           ELSE Apply([W1 EXCEPT !.sends[s].pc = "parsing",
                                 !.sends[s].bodyRead = TRUE])

\* A rejection of fetch classified like a response without a usable body.
FetchRejectsReclassified(s) ==
  /\ sends[s].pc = "fetching"
  /\ Apply(HandleError(World, s,
             ApnsError(s, 0, sends[s].notification,
                       [reason |-> unknownError, timestamp |-> now]),
             <<"observe", "observe">>, <<0, 0>>))

\* A rejection of fetch answered by issuing the request once more.
FetchRejectsRetry(s) ==
  /\ sends[s].pc = "fetching"
  /\ IF sends[s].requests < 2
     THEN Apply([World EXCEPT !.sends[s].requests = @ + 1])
     ELSE Apply(Settle(World, s, Rejected(TransportError(s)), "fetch"))

\* fetch rejects: a network error or a timeout.
FetchRejects(s) ==
  /\ sends[s].pc = "fetching"
  /\ Apply(Settle(World, s, Rejected(TransportError(s)), "fetch"))

\* res.json() settles and _handleServerResponse runs to its end
\* (lines 106-126).
BodySettles(s) ==
  /\ sends[s].pc = "parsing"
  /\ LET res == sends[s].res
         error == ApnsError(s, res.status, sends[s].notification,
                            ResponseError(res.body, now))
     IN  \E acts \in ListenerActs \X ListenerActs, ds \in ClockSteps \X ClockSteps :
           /\ acts[1] = "send" => error.reason \in listeners
           /\ acts[2] = "send" => ErrorChannel \in listeners
           /\ nextId + Cardinality({i \in 1..2 : acts[i] = "send"})
                <= MaxSends + 1
           /\ Apply(HandleError(World, s, error, acts, ds))

Next ==
  \/ Tick
  \/ Send
  \/ SendMany
  \/ \E s \in SendIds : FetchSettles(s)
  \/ \E s \in SendIds : FetchRejects(s)
  \/ \E s \in SendIds : BodySettles(s)

Spec == Init /\ [][Next]_vars

\* Every request is answered or fails, every body read ends: the transport
\* completes what it has started.
FairSpec ==
  /\ Spec
  /\ \A s \in SendIds : WF_vars(FetchSettles(s) \/ FetchRejects(s))
  /\ \A s \in SendIds : WF_vars(BodySettles(s))

(***************************************************************************)
(* The request builder on its own: a client with any default topic sends   *)
(* a notification with any options; nothing answers.                       *)
(***************************************************************************)
HeaderInit ==
  /\ now = StartMs
  /\ signerOk = TRUE
  /\ listeners = {}
  /\ token = NoToken
  /\ signCalls = 0
  /\ sends = [s \in SendIds |-> UnusedSend]
  /\ nextId = 1
  /\ batch = NoBatch
  /\ defaultTopic \in DefaultTopics
  /\ \E o \in NotificationObjects :
     \E p \in {PlainNotification, Twin(o)} :
       catalog = [n \in Notifications |->
                    IF n = 1 THEN o ELSE IF n = 2 THEN p ELSE PlainNotification]

HeaderNext == Send

HeaderSpec == HeaderInit /\ [][HeaderNext]_vars

(***************************************************************************)
(* Vocabulary of the properties.                                           *)
(***************************************************************************)
Started == {s \in SendIds : sends[s].pc # "unused"}
SettledSends == {s \in SendIds : sends[s].pc = "settled"}
FailedWith(kind) ==
  {s \in SettledSends : /\ sends[s].outcome.kind = "rejected"
                        /\ sends[s].outcome.error.kind = kind}
DeliveryFailures == FailedWith("ApnsError")
ReasonOf(s) == sends[s].outcome.error.reason
Ops(s) == [i \in 1..Len(sends[s].steps) |-> sends[s].steps[i].op]
Emissions(s) ==
  {i \in 1..Len(sends[s].steps) : sends[s].steps[i].op = "emit"}
ChildrenOf(s) == {j \in Started : sends[j].parent = s}
\* The cached token was usable at the expiry check of send s.
CacheWasFresh(s) ==
  /\ sends[s].acq.before.kind = "token"
  /\ sends[s].acq.t0 - sends[s].acq.before.timestamp < 55 * 60 * 1000

(***************************************************************************)
(* C1.  A token acquisition calls the signer if and only if the cache is   *)
(* empty or the cached token is 55 minutes old or older: a younger token   *)
(* is returned as it is, with no signer call and the cache untouched; an   *)
(* older one (55 minutes exactly included) costs exactly one signer call,  *)
(* and the new value is stored with a new timestamp and returned.          *)
(***************************************************************************)
C1_AcquisitionSignsIffStale ==
  \A s \in Started :
    LET a == sends[s].acq
    IN  IF CacheWasFresh(s)
        THEN /\ a.calls = 0
             /\ a.ret = a.before.value
             /\ a.after = a.before
        ELSE /\ a.calls = 1
             /\ signerOk =>
                  /\ a.after.kind = "token"
                  /\ a.after.value = a.ret
                  /\ a.ret.kind = "jwt"
                  /\ a.after.timestamp >= a.t0
                  /\ a.before.kind = "token" =>
                       /\ a.ret # a.before.value
                       /\ a.after.timestamp # a.before.timestamp

\* A token exactly 55 minutes old was replaced by a newly signed one.
C1_Witness ==
  \E s \in Started :
    /\ sends[s].acq.before.kind = "token"
    /\ sends[s].acq.t0 - sends[s].acq.before.timestamp = 55 * 60 * 1000
    /\ sends[s].acq.calls = 1
    /\ sends[s].acq.after.value = sends[s].acq.ret

(***************************************************************************)
(* C2.  Once a response is classified ExpiredProviderToken the cache is    *)
(* empty (whatever token the request carried and whatever the cache held), *)
(* and the acquisition that follows calls the signer and yields a token    *)
(* signed after the clearing, however young the dropped token was.         *)
(***************************************************************************)
C2_ExpiredTokenClearsCache ==
  /\ \A s \in DeliveryFailures :
       ReasonOf(s) = expiredProviderToken =>
         LET st == sends[s].steps
             kids == ChildrenOf(s)
         IN  /\ st[1].op = "invalidate"
             /\ st[2].cache = NoToken
             /\ kids = {} => \A i \in 2..Len(st) : st[i].cache = NoToken
             /\ kids # {} =>
                  LET j == CHOOSE x \in kids : \A y \in kids : x <= y
                  IN  /\ sends[j].acq.before = NoToken
                      /\ sends[j].acq.calls = 1
                      /\ sends[j].acq.ret.kind = "jwt"
                      /\ st[1].cache.kind = "token" =>
                           sends[j].acq.ret.sig > st[1].cache.value.sig
  /\ \A j \in Started :
       sends[j].acq.before = NoToken =>
         /\ sends[j].acq.calls = 1
         /\ signerOk => /\ sends[j].acq.after.kind = "token"
                        /\ sends[j].acq.after.value = sends[j].acq.ret
                        /\ \A i \in Started :
                             i < j => sends[i].acq.ret # sends[j].acq.ret

\* A send of the caller found the cache emptied by an expired-token
\* response and signed anew, less than 55 minutes after the dropped token
\* was stored.
C2_Witness ==
  \E s \in DeliveryFailures, j \in Started :
    /\ ReasonOf(s) = expiredProviderToken
    /\ sends[s].steps[1].cache.kind = "token"
    /\ j # s /\ sends[j].parent = 0
    /\ sends[j].acq.before = NoToken
    /\ sends[j].acq.calls = 1
    /\ sends[j].acq.t0 - sends[s].steps[1].cache.timestamp < 55 * 60 * 1000
    /\ sends[j].acq.ret.sig > sends[s].steps[1].cache.value.sig

(***************************************************************************)
(* C3.  Handling a non-200 response whose reason is not                    *)
(* ExpiredProviderToken leaves the cached token as it was: no step of the  *)
(* error path changes it (only a send that a listener starts may, by its   *)
(* own acquisition).                                                       *)
(***************************************************************************)
C3_OtherReasonsKeepCache ==
  \A s \in DeliveryFailures :
    ReasonOf(s) # expiredProviderToken =>
      LET st == sends[s].steps
      IN  /\ \A i \in 1..Len(st) : st[i].op # "invalidate"
          /\ \A i \in 1..(Len(st) - 1) :
               \/ st[i + 1].cache = st[i].cache
               \/ \E j \in ChildrenOf(s) :
                    /\ sends[j].acq.before = st[i].cache
                    /\ sends[j].acq.after = st[i + 1].cache

\* A BadDeviceToken or an unparseable response was handled with a token in
\* the cache, and every step of the error path found that token in place.
C3_Witness ==
  \E s \in DeliveryFailures :
    /\ ReasonOf(s) \in {badDeviceToken, unknownError}
    /\ sends[s].steps[1].cache.kind = "token"
    /\ \A i \in 1..Len(sends[s].steps) :
         sends[s].steps[i].cache = sends[s].steps[1].cache

(***************************************************************************)
(* C4.  The array sendMany resolves to is as long as its input and         *)
(* aligned with it: entry i is notification i when send i succeeded and    *)
(* { error } with send i's own error when it failed, in whatever order     *)
(* the sends completed.                                                    *)
(***************************************************************************)
C4_SendManyAligned ==
  batch.state = "resolved" =>
    /\ Len(batch.values) = Len(batch.input)
    /\ \A i \in 1..Len(batch.input) :
         LET snd == sends[batch.ids[i]]
         IN  /\ snd.notification = batch.input[i]
             /\ snd.outcome.kind = "fulfilled" =>
                  batch.values[i] = NotificationValue(batch.input[i])
             /\ snd.outcome.kind = "rejected" =>
                  /\ batch.values[i] = ErrorObject(snd.outcome.error)
                  /\ batch.values[i].error.id = batch.ids[i]

\* sendMany([A, B]) resolved with A delivered and B failed, and the other
\* way round.
C4_Witness ==
  /\ batch.state = "resolved"
  /\ Len(batch.input) = 2
  /\ batch.input[1] # batch.input[2]
  /\ batch.values[1].kind # batch.values[2].kind

(***************************************************************************)
(* C5.  sendMany never rejects, and a failed send, of whatever kind, does  *)
(* not abort the batch: a send is started for every notification of the    *)
(* input and the result reports the outcome of each.                       *)
(***************************************************************************)
C5_SendManyNeverRejects ==
  /\ batch.state # "rejected"
  /\ batch.state # "none" =>
       /\ Len(batch.ids) = Len(batch.input)
       /\ \A i \in 1..Len(batch.input) :
            /\ batch.ids[i] \in Started
            /\ sends[batch.ids[i]].notification = batch.input[i]
            /\ sends[batch.ids[i]].acq.kind = "acq"
  /\ batch.state = "resolved" =>
       \A i \in 1..Len(batch.input) :
         /\ batch.ids[i] \in SettledSends
         /\ batch.values[i].kind =
              IF sends[batch.ids[i]].outcome.kind = "fulfilled"
              THEN "notification" ELSE "errorObject"

\* The first send of a batch of two has failed; the batch goes on and the
\* second send is still in flight.
C5_Witness ==
  /\ batch.state = "pending"
  /\ Len(batch.ids) = 2
  /\ batch.ids[1] \in FailedWith("TransportError") \cup DeliveryFailures
  /\ sends[batch.ids[2]].pc = "fetching"
  /\ batch.values[1].kind = "errorObject"

(***************************************************************************)
(* C6.  sendMany resolves once every send has settled: never while one is  *)
(* in flight, and eventually when the transport completes every call.      *)
(***************************************************************************)
\* C6, the first half: no send of a resolved batch is in flight.
C6_NoneInFlightWhenResolved ==
  batch.state = "resolved" =>
    \A i \in 1..Len(batch.ids) : batch.ids[i] \in SettledSends

\* C6: the batch is never resolved with a send in flight, and a pending
\* batch leads to a resolved one when the transport completes every call.
C6_ResolvesOnceAllSettled ==
  /\ []C6_NoneInFlightWhenResolved
  /\ (batch.state = "pending") ~> (batch.state = "resolved")

\* A batch of two resolved with both sends settled, one of them after its
\* error body was read.
C6_Witness ==
  /\ batch.state = "resolved"
  /\ Len(batch.ids) = 2
  /\ \A i \in 1..2 : batch.ids[i] \in SettledSends
  /\ \E i \in 1..2 : sends[batch.ids[i]].bodyRead

(***************************************************************************)
(* C7.  The error path of a non-200 response runs in one order, each step  *)
(* once: the cache is cleared iff the reason is ExpiredProviderToken, the  *)
(* error is emitted on its reason's channel, then on the generic channel,  *)
(* then raised to the caller.  The cache is already cleared when a         *)
(* listener runs: a send started by a listener of an ExpiredProviderToken  *)
(* error gets a token signed after the clearing.                           *)
(***************************************************************************)
C7_ErrorPathOrder ==
  \A s \in DeliveryFailures :
    LET st == sends[s].steps
        e == sends[s].outcome.error
        expired == ReasonOf(s) = expiredProviderToken
        k == IF expired THEN 1 ELSE 0
    IN  /\ Ops(s) = IF expired THEN <<"invalidate", "emit", "emit", "raise">>
                    ELSE <<"emit", "emit", "raise">>
        /\ st[k + 1].channel = e.reason /\ st[k + 1].error = e
        /\ st[k + 2].channel = ErrorChannel /\ st[k + 2].error = e
        /\ st[k + 3].error = e
        /\ expired =>
             /\ st[2].cache = NoToken
             /\ \A j \in ChildrenOf(s) :
                  /\ sends[j].acq.ret.kind = "jwt"
                  /\ sends[j].acq.ret # sends[s].request.authorization
                  /\ st[1].cache.kind = "token" =>
                       sends[j].acq.ret.sig > st[1].cache.value.sig

\* A listener of an ExpiredProviderToken error sent the notification again
\* while the dropped token was younger than 55 minutes, and the new send
\* carries a newly signed token.
C7_Witness ==
  \E s \in DeliveryFailures, j \in Started :
    /\ ReasonOf(s) = expiredProviderToken
    /\ sends[j].parent = s
    /\ sends[s].steps[1].cache.kind = "token"
    /\ sends[j].acq.t0 - sends[s].steps[1].cache.timestamp < 55 * 60 * 1000
    /\ sends[j].acq.calls = 1
    /\ sends[j].request.authorization.sig
         > sends[s].request.authorization.sig

(***************************************************************************)
(* C8.  As claimed: every failure of a send, of whatever kind, is raised   *)
(* to the caller and broadcast on the event channel.                       *)
(***************************************************************************)
Failures == {s \in SettledSends : sends[s].outcome.kind = "rejected"}
\* A send that cannot have succeeded: the signer threw, fetch rejected, or
\* the response was not a 200.
Unsuccessful ==
  {s \in SettledSends :
     ~(sends[s].res.kind = "response" /\ sends[s].res.status = 200)}

C8_EveryFailureBroadcast ==
  \A s \in Unsuccessful :
    /\ s \in Failures
    /\ Emissions(s) # {}

(***************************************************************************)
(* C8, amended.  Every failure of a send is raised to the caller; a        *)
(* delivery error (a non-200 response, the unknown error included) is      *)
(* also emitted on its reason's channel and on the generic channel, while  *)
(* a signing failure and a transport failure are raised without any        *)
(* emission.                                                               *)
(***************************************************************************)
C8_DeliveryErrorsBroadcast ==
  \A s \in Unsuccessful :
    /\ s \in Failures
    /\ IF sends[s].res.kind = "response"
       THEN /\ s \in DeliveryFailures
            /\ \E i, j \in Emissions(s) :
                 /\ sends[s].steps[i].channel = ReasonOf(s)
                 /\ sends[s].steps[j].channel = ErrorChannel
                 /\ sends[s].steps[i].error = sends[s].outcome.error
                 /\ sends[s].steps[j].error = sends[s].outcome.error
       ELSE /\ sends[s].outcome.error.kind
                 \in {"SigningError", "TransportError"}
            /\ sends[s].steps = <<>>

\* One send failed in the transport and emitted nothing; another was
\* rejected by the service and emitted its error on both channels.
C8_Witness ==
  \E s \in FailedWith("TransportError"), r \in DeliveryFailures :
    /\ sends[s].steps = <<>>
    /\ Cardinality(Emissions(r)) = 2

(***************************************************************************)
(* C9.  As claimed: on a client without listeners, a send that receives a  *)
(* non-200 response makes both emissions without either of them throwing   *)
(* and then rejects through the throw of line 126.                         *)
(***************************************************************************)
C9_EmissionNeverThrows ==
  listeners = {} =>
    \A s \in DeliveryFailures :
      /\ Cardinality(Emissions(s)) = 2
      /\ sends[s].via = "throw"

(***************************************************************************)
(* C10.  A send whose response has status 200 resolves to the notification *)
(* it was given, emits nothing, never reads the body and leaves the cached *)
(* token as it is.                                                         *)
(***************************************************************************)
Delivered ==
  {s \in Started : sends[s].res.kind = "response" /\ sends[s].res.status = 200}

\* C10, the send: resolved to its notification, nothing emitted, body unread.
C10_DeliveredState ==
  \A s \in Delivered :
    /\ sends[s].pc = "settled"
    /\ sends[s].outcome = Fulfilled(NotificationValue(sends[s].notification))
    /\ sends[s].notification = sends[s].request.notification
    /\ sends[s].steps = <<>>
    /\ ~sends[s].bodyRead
    /\ ChildrenOf(s) = {}

\* C10, the cache: the step that receives the 200 leaves it alone.
C10_DeliveredStep ==
  \A s \in SendIds :
    (sends[s].pc = "fetching" /\ sends'[s].res.kind = "response"
       /\ sends'[s].res.status = 200)
      => /\ token' = token
         /\ signCalls' = signCalls

\* C10: a send answered 200 resolves to its notification, emits nothing,
\* never reads the body and leaves the cached token unchanged.
C10_SuccessIsSilent == []C10_DeliveredState /\ [][C10_DeliveredStep]_vars

\* A 200 arrived while a token was cached; the send resolved to its
\* notification and the token is still there.
C10_Witness ==
  \E s \in Delivered :
    /\ sends[s].pc = "settled"
    /\ sends[s].outcome.kind = "fulfilled"
    /\ token.kind = "token"
    /\ token.value = sends[s].request.authorization

(***************************************************************************)
(* C11.  A non-200 response whose body is not JSON does not fail with a    *)
(* parse error: it yields a DeliveryError with the response's status and   *)
(* the synthesized unknown-error reason, which is emitted on both          *)
(* channels and raised, and the token cache is not cleared.                *)
(***************************************************************************)
Unparseable ==
  {s \in SettledSends : /\ sends[s].res.kind = "response"
                        /\ sends[s].res.status # 200
                        /\ ~sends[s].res.body.json}

C11_UnparseableBodyIsUnknownError ==
  \A s \in Unparseable :
    LET st == sends[s].steps
        e == sends[s].outcome.error
    IN  /\ sends[s].outcome.kind = "rejected"
        /\ e.kind = "ApnsError"
        /\ e.statusCode = sends[s].res.status
        /\ e.reason = unknownError
        /\ e.notification = sends[s].notification
        /\ Ops(s) = <<"emit", "emit", "raise">>
        /\ st[1].channel = unknownError /\ st[1].error = e
        /\ st[2].channel = ErrorChannel /\ st[2].error = e
        /\ st[3].error = e
        /\ ChildrenOf(s) = {} => \A i \in 1..3 : st[i].cache = st[1].cache

\* A 403 without a JSON body was handled while a token was cached, and the
\* token was still cached when the error was raised.
C11_Witness ==
  \E s \in Unparseable :
    /\ sends[s].outcome.error.reason = unknownError
    /\ sends[s].outcome.error.statusCode = 403
    /\ sends[s].steps[3].cache.kind = "token"
    /\ token.kind = "token"

(***************************************************************************)
(* C12.  A signing failure rejects the send with the signer's own error    *)
(* (an { error } entry in sendMany), is not retried, issues no HTTP        *)
(* request and leaves the token cache as the acquisition found it.         *)
(***************************************************************************)
SigningFailures == FailedWith("SigningError")

C12_SigningFailureSurfaces ==
  /\ \A s \in Started :
       (~signerOk /\ ~CacheWasFresh(s)) => s \in SigningFailures
  /\ \A s \in SigningFailures :
       /\ sends[s].outcome.error = SigningError(s)
       /\ sends[s].acq.calls = 1
       /\ sends[s].acq.after = sends[s].acq.before
       /\ sends[s].requests = 0
       /\ sends[s].request = None
       /\ sends[s].res = None
       /\ sends[s].steps = <<>>
       /\ InBatch(batch, s) =>
            /\ batch.state = "resolved"
            /\ batch.values[PositionOf(batch, s)]
                 = ErrorObject(SigningError(s))

\* Both sends of a batch failed in the signer; the batch resolved to two
\* { error } entries and no request was issued.
C12_Witness ==
  /\ batch.state = "resolved"
  /\ Len(batch.ids) = 2
  /\ \A i \in 1..2 : /\ batch.ids[i] \in SigningFailures
                     /\ batch.values[i].kind = "errorObject"
                     /\ sends[batch.ids[i]].requests = 0
  /\ signCalls = 2
  /\ token = NoToken

(***************************************************************************)
(* C13.  A transport failure reaches the caller as the transport's own     *)
(* error: no DeliveryError is built, the classifier is not entered, the    *)
(* token cache is unchanged and the request is not reissued.               *)
(***************************************************************************)
C13_TransportFailureStep ==
  \A s \in SendIds :
    (/\ sends[s].pc = "fetching"
     /\ sends'[s] # sends[s]
     /\ sends'[s].res.kind = "none")
      => /\ sends'[s].pc = "settled"
         /\ sends'[s].outcome = Rejected(TransportError(s))
         /\ sends'[s].steps = <<>>
         /\ ~sends'[s].bodyRead
         /\ sends'[s].requests = 1
         /\ token' = token
         /\ signCalls' = signCalls
         /\ nextId' = nextId

\* C13: the step in which a request ends without a response rejects the
\* send with the transport's error and changes nothing else.
C13_TransportErrorUnmodified == [][C13_TransportFailureStep]_vars

\* A request failed in the transport while a token was cached.
C13_Witness ==
  \E s \in FailedWith("TransportError") :
    /\ sends[s].res = None
    /\ sends[s].steps = <<>>
    /\ sends[s].requests = 1
    /\ token.kind = "token"
    /\ token.value = sends[s].request.authorization

(***************************************************************************)
(* C14.  No automatic retry: a send issues at most one HTTP request        *)
(* whatever its outcome, and exactly one when the token acquisition        *)
(* succeeded; a send rejected for an expired provider token is not sent    *)
(* again with a fresh token (only a listener may send it again).           *)
(***************************************************************************)
C14_AtMostOneRequest ==
  \A s \in Started :
    /\ sends[s].requests <= 1
    /\ sends[s].requests = 1 <=> sends[s].acq.ret.kind = "jwt"
    /\ sends[s].requests = 1 <=> sends[s].request.kind = "request"
    /\ s \in SettledSends =>
         \A j \in ChildrenOf(s) :
           \E i \in Emissions(s) : sends[s].steps[i].heard
    /\ (s \in DeliveryFailures /\ listeners = {}) => ChildrenOf(s) = {}

\* A send was rejected for an expired provider token on a client without
\* listeners: one request, and no other send was started.
C14_Witness ==
  \E s \in DeliveryFailures :
    /\ ReasonOf(s) = expiredProviderToken
    /\ listeners = {}
    /\ sends[s].requests = 1
    /\ nextId = s + 1
    /\ token = NoToken

(***************************************************************************)
(* Vocabulary of the header claims.                                        *)
(***************************************************************************)
Requested == {s \in Started : sends[s].request.kind = "request"}
NotificationOf(s) == catalog[sends[s].notification]
HeadersOf(s) == sends[s].request.headers
Present(x) == x.kind # "undefined"

(***************************************************************************)
(* C15.  As claimed: for every combination of absent, empty-string and     *)
(* non-empty topics, the request carries apns-topic equal to               *)
(* options.topic if that is present, otherwise to defaultTopic if that is  *)
(* present, and carries no apns-topic header only if neither is set.       *)
(***************************************************************************)
C15_TopicFallback ==
  \A s \in Requested :
    LET topic == NotificationOf(s).options.topic
        h == HeadersOf(s).topic
    IN  /\ Present(topic) => h = Header(topic.value)
        /\ (~Present(topic) /\ Present(defaultTopic))
             => h = Header(defaultTopic.value)
        /\ h = Unset => (~Present(topic) /\ ~Present(defaultTopic))

(***************************************************************************)
(* C16.  A notification of priority immediate is requested without an      *)
(* apns-priority header; with any other priority the header is the         *)
(* priority's numeric value as a decimal string.                           *)
(***************************************************************************)
C16_PriorityHeader ==
  \A s \in Requested :
    LET priority == NotificationOf(s).priority
        h == HeadersOf(s).priority
    IN  /\ priority = Priority.immediate => h = Unset
        /\ priority = Priority.throttled => h = Header(<<5>>)
        /\ priority = Priority.low => h = Header(<<1>>)

\* One request with priority 5 and the header "5", one with priority
\* immediate and no header.
C16_Witness ==
  \E s, r \in Requested :
    /\ NotificationOf(s).priority = Priority.throttled
    /\ HeadersOf(s).priority = Header(<<5>>)
    /\ NotificationOf(r).priority = Priority.immediate
    /\ HeadersOf(r).priority = Unset

(***************************************************************************)
(* C17.  An expiration given as epoch seconds n and one given as the       *)
(* calendar instant of n * 1000 ms produce the same apns-expiration        *)
(* header, the decimal numeral of n; the header is present exactly when    *)
(* options.expiration is, the number 0 included.                           *)
(***************************************************************************)
EpochSeconds(e) == IF e.kind = "number" THEN e.value ELSE e.time \div 1000
WholeSeconds(e) ==
  \/ e.kind = "number"
  \/ e.kind = "date" /\ e.time % 1000 = 0

C17_ExpirationHeader ==
  /\ \A s \in Requested :
       LET e == NotificationOf(s).options.expiration
           h == HeadersOf(s).expiration
       IN  /\ h.kind = "header" <=> Present(e)
           /\ (Present(e) /\ WholeSeconds(e))
                => h = Header(Digits(EpochSeconds(e)))
  /\ \A s, r \in Requested :
       LET e == NotificationOf(s).options.expiration
           f == NotificationOf(r).options.expiration
       IN  (/\ e.kind = "number" /\ f.kind = "date"
            /\ f.time = 1000 * e.value)
             => HeadersOf(s).expiration = HeadersOf(r).expiration

\* The number 0 and the instant of 0 ms were both sent with the header "0".
C17_Witness ==
  \E s, r \in Requested :
    /\ NotificationOf(s).options.expiration = Number(0)
    /\ NotificationOf(r).options.expiration = Date(0)
    /\ HeadersOf(s).expiration = Header(<<0>>)
    /\ HeadersOf(r).expiration = Header(<<0>>)

(***************************************************************************)
(* Vocabulary of the token claims.                                         *)
(***************************************************************************)
\* Send s called the signer and stored what it returned.
Minted(s) ==
  /\ s \in Started
  /\ sends[s].acq.calls = 1
  /\ sends[s].acq.ret.kind = "jwt"
\* Some send cleared the cache (line 119).
Invalidated ==
  \E k \in Started : \E i \in 1..Len(sends[k].steps) :
    sends[k].steps[i].op = "invalidate"

(***************************************************************************)
(* C18.  As claimed: two sends in flight together both find the same       *)
(* expired or absent cached token, both call the signer, and the later     *)
(* store overwrites the earlier one.                                       *)
(***************************************************************************)
C18_Race ==
  \E i, j \in Started :
    /\ i < j
    /\ Minted(i) /\ Minted(j)
    /\ sends[j].acq.before = sends[i].acq.before
    /\ ~Invalidated

C18_RegenerationRace == <>C18_Race

(***************************************************************************)
(* C18, amended.  Sends do not race on regeneration: the expiry check and  *)
(* the store of a send run in one job, so every later send finds the       *)
(* cache as the previous acquisition left it, or empty after an            *)
(* invalidation; two sends never sign for the same stale cache, and the    *)
(* cached token is always the one signed last.                             *)
(***************************************************************************)
C18_NoRegenerationRace ==
  /\ ~C18_Race
  /\ \A j \in Started :
       j > 1 =>
         \/ sends[j].acq.before = sends[j - 1].acq.after
         \/ sends[j].acq.before = NoToken /\ Invalidated
  /\ \A i, j \in Started :
       (i < j /\ Minted(i) /\ sends[j].acq.before.kind = "token")
         => sends[j].acq.before.value.sig >= sends[i].acq.ret.sig
  /\ token.kind = "token" => token.value.sig = signCalls

\* Two sends of one batch are in flight together; the first found the cache
\* empty and signed, the second found the first's token and did not sign.
C18_Witness ==
  /\ batch.state = "pending"
  /\ Len(batch.ids) = 2
  /\ \A i \in 1..2 : sends[batch.ids[i]].pc = "fetching"
  /\ sends[batch.ids[1]].acq.before = NoToken
  /\ Minted(batch.ids[1])
  /\ sends[batch.ids[2]].acq.before = sends[batch.ids[1]].acq.after
  /\ sends[batch.ids[2]].acq.calls = 0
  /\ signCalls = 1

(***************************************************************************)
(* C19.  As claimed: the timestamp of a cached token is the instant the    *)
(* token was minted, the instant whose floor to seconds was signed as      *)
(* iat; the clock cannot advance between the two.                          *)
(***************************************************************************)
C19_TimestampIsMintInstant ==
  /\ \A s \in Started :
       Minted(s) => /\ sends[s].acq.after.timestamp = sends[s].acq.t0
                    /\ sends[s].acq.after.timestamp \div 1000
                         = sends[s].acq.ret.iat
  /\ token.kind = "token" => token.timestamp \div 1000 = token.value.iat

(***************************************************************************)
(* C19, amended.  The timestamp of a cached token is the clock's reading   *)
(* when the token was stored, after the signer returned; it is never       *)
(* earlier than the instant whose floor to seconds was signed as iat, and  *)
(* never later than the present.                                           *)
(***************************************************************************)
C19_TimestampIsStoreInstant ==
  /\ \A s \in Started :
       Minted(s) => /\ sends[s].acq.ret.iat = sends[s].acq.t0 \div 1000
                    /\ sends[s].acq.after.value = sends[s].acq.ret
                    /\ sends[s].acq.after.timestamp >= sends[s].acq.t0
                    /\ sends[s].acq.after.timestamp - sends[s].acq.t0
                         \in ClockSteps
  /\ token.kind = "token" => /\ 1000 * token.value.iat <= token.timestamp
                             /\ token.timestamp <= now

\* The clock advanced while the signer ran: the cached token's timestamp is
\* later than the instant signed, by more than a second.
C19_Witness ==
  \E s \in Started :
    /\ Minted(s)
    /\ token = sends[s].acq.after
    /\ token.timestamp > sends[s].acq.t0
    /\ token.timestamp \div 1000 > token.value.iat

(***************************************************************************)
(* C20.  The token acquisition is atomic with respect to other sends:      *)
(* when sendMany is called with one or more notifications on a client      *)
(* whose cache is empty or expired and whose signer works, the signer is   *)
(* called once for the whole batch and every request carries the same      *)
(* authorization token, the one left in the cache.                         *)
(***************************************************************************)
CacheIsStale ==
  \/ token.kind = "none"
  \/ token.kind = "token" /\ now - token.timestamp >= RESET_TOKEN_INTERVAL_MS

C20_SendManyStep ==
  (/\ batch.state = "none"
   /\ batch'.state # "none"
   /\ Len(batch'.ids) >= 1
   /\ CacheIsStale
   /\ signerOk)
    => /\ signCalls' = signCalls + 1
       /\ token'.kind = "token"
       /\ token'.value.sig = signCalls'
       /\ \A i \in 1..Len(batch'.ids) :
            LET snd == sends'[batch'.ids[i]]
            IN  /\ snd.request.kind = "request"
                /\ snd.request.authorization = token'.value
                /\ snd.request.headers.authorization = token'.value
                /\ snd.acq.calls = IF i = 1 THEN 1 ELSE 0
                /\ snd.acq.after = token'

C20_OneSignaturePerBatch == [][C20_SendManyStep]_vars

\* A batch of two was started on an empty cache: one signer call, and both
\* requests carry the cached token.
C20_Witness ==
  /\ batch.state # "none"
  /\ Len(batch.ids) = 2
  /\ sends[batch.ids[1]].acq.before = NoToken
  /\ signCalls = 1
  /\ token.kind = "token"
  /\ \A i \in 1..2 :
       sends[batch.ids[i]].request.authorization = token.value

=============================================================================
